---- MODULE Spec2Model ----
(***************************************************************************)
(* Model of src/src/painter.c (Stellarium Web Engine): the visibility      *)
(* culling and paint dispatch of the painter.                              *)
(*                                                                         *)
(* Numbers.  A C double is a fixed-point integer with unit One (1.0 is     *)
(* 100); a unit vector is a triple of such numbers of length One; an angle *)
(* is a whole number of degrees (M_PI is 180) and cos() is the table Cos.  *)
(* Rounding therefore exists in the model as it does in the code.          *)
(***************************************************************************)
EXTENDS Integers, Sequences, FiniteSets, TLC

\* ------------------------------------------------------------ arithmetic

\* 1.0 as a fixed-point number.
One == 100

M_PI == 180

M_PI_2 == 90

Abs(a) == IF a < 0 THEN -a ELSE a

max(a, b) == IF a > b THEN a ELSE b

\* a / b rounded to the nearest integer, symmetric in the sign of a (b > 0).
RDiv(a, b) == IF a >= 0 THEN (2 * a + b) \div (2 * b)
              ELSE -((2 * (-a) + b) \div (2 * b))

RECURSIVE SqrtBS(_, _, _)
SqrtBS(n, lo, hi) ==
    IF lo >= hi THEN lo
    ELSE LET mid == (lo + hi + 1) \div 2
         IN IF mid * mid <= n THEN SqrtBS(n, mid, hi) ELSE SqrtBS(n, lo, mid - 1)

\* k or k + 1, whichever is nearer to sqrt(n), for k = floor(sqrt(n)).
RoundUp(n, k) == IF n - k * k > k THEN k + 1 ELSE k

\* sqrt(n) rounded to the nearest integer.
RSqrt(n) == RoundUp(n, SqrtBS(n, 0, IF n < 46340 THEN n ELSE 46340))

\* cos(k degrees) * One for k = 0..90.
CosTab == << 100, 100, 100, 100, 100, 100, 99, 99, 99, 99, 98, 98, 98, 97, 97,
             97, 96, 96, 95, 95, 94, 93, 93, 92, 91, 91, 90, 89, 88, 87, 87,
             86, 85, 84, 83, 82, 81, 80, 79, 78, 77, 75, 74, 73, 72, 71, 69,
             68, 67, 66, 64, 63, 62, 60, 59, 57, 56, 54, 53, 52, 50, 48, 47,
             45, 44, 42, 41, 39, 37, 36, 34, 33, 31, 29, 28, 26, 24, 22, 21,
             19, 17, 16, 14, 12, 10, 9, 7, 5, 3, 2, 0 >>

\* cos() of an angle in degrees, 0..180.
Cos(k) == IF k <= M_PI_2 THEN CosTab[k + 1] ELSE -CosTab[M_PI - k + 1]

\* acos() in degrees: the least angle whose cosine is not above c
\* (Cos never increases, so that angle is the one where Cos steps below c).
ACosTab == [c \in (-One)..One |->
               CHOOSE k \in 0..M_PI : /\ Cos(k) <= c
                                      /\ k > 0 => Cos(k - 1) > c]

ACos(c) == ACosTab[c]

\* ---------------------------------------------------------------- vectors

vec3_dot(a, b) == a[1] * b[1] + a[2] * b[2] + a[3] * b[3]

vec3_cross(a, b) == << a[2] * b[3] - a[3] * b[2],
                       a[3] * b[1] - a[1] * b[3],
                       a[1] * b[2] - a[2] * b[1] >>

vec3_mul(k, v) == << k * v[1], k * v[2], k * v[3] >>

\* w / n for a vector w of length n, as a vector of length One.
Scaled(w, n) ==
    IF n = 0 THEN << 0, 0, 0 >>
    ELSE << RDiv(One * w[1], n), RDiv(One * w[2], n), RDiv(One * w[3], n) >>

Normalized(w) == Scaled(w, RSqrt(vec3_dot(w, w)))

\* The vector of length One along v.  Short vectors are scaled up first so
\* that the rounding of the length does not dominate.  (The zero vector has
\* no direction: the code would produce NaN; the model never normalizes it.)
vec3_normalize(v) ==
    IF max(Abs(v[1]), max(Abs(v[2]), Abs(v[3]))) < 2 * One
    THEN Normalized(vec3_mul(One, v))
    ELSE Normalized(v)

\* Cosine (fixed point) of the angle between two vectors of length One.
CosSep(a, b) == RDiv(vec3_dot(a, b), One)

Clamp(c) == IF c > One THEN One ELSE IF c < -One THEN -One ELSE c

\* Angular separation of two unit vectors, in degrees.
eraSepp(a, b) == ACos(Clamp(CosSep(a, b)))

\* ------------------------------------------------------------------- caps
\* A cap is << x, y, z, cos(half angle) >>.

Center(cap) == << cap[1], cap[2], cap[3] >>

MkCap(c, d) == << c[1], c[2], c[3], d >>

\* dot(cap.center, v) >= cap.cosHalfAngle
cap_contains_vec3(cap, v) == vec3_dot(Center(cap), v) >= cap[4] * One

\* True iff the angular distance between the centres is at most the sum of
\* the half angles: cos(dist) >= cos(a1 + a2) = d1 d2 - sin a1 sin a2, or the
\* half angles add up to pi or more.
cap_intersects_cap(cap1, cap2) ==
    LET d1 == cap1[4]
        d2 == cap2[4]
        a  == d1 * d2 - vec3_dot(Center(cap1), Center(cap2))
    IN \/ d1 + d2 <= 0
       \/ a <= 0
       \/ /\ a <= One * One
          /\ a * a <= (One * One - d1 * d1) * (One * One - d2 * d2)

\* ----------------------------------------------------------------- frames
\* Frames are numbered 0..FRAMES_NB-1.  The observer state is the orientation
\* of the camera in the observed frame; the other frames are fixed rotations
\* of the observed frame.

FRAMES_NB == 2

FRAME_VIEW == 0

FRAME_OBSERVED == 1

Frames == 0..(FRAMES_NB - 1)

Observers == { "horizon", "zenith" }

\* Observed -> view.  The view looks along -z, with +y up.
ObsToView(o, v) == IF o = "horizon" THEN << v[1], v[3], -v[2] >>
                   ELSE << v[1], -v[2], -v[3] >>

ViewToObs(o, v) == IF o = "horizon" THEN << v[1], -v[3], v[2] >>
                   ELSE << v[1], -v[2], -v[3] >>

RECURSIVE CycN(_, _)
CycN(n, v) == IF n = 0 THEN v ELSE CycN(n - 1, << v[2], v[3], v[1] >>)

ToView(o, f, v) == IF f = FRAME_VIEW THEN v
                   ELSE ObsToView(o, CycN((f - 1) % 3, v))

FromView(o, f, v) == IF f = FRAME_VIEW THEN v
                     ELSE CycN((3 - ((f - 1) % 3)) % 3, ViewToObs(o, v))

\* convert_frame for directions (at_inf): a rotation.
convert_frame(obs, origin, dest, v) == FromView(obs, dest, ToView(obs, origin, v))

\* ------------------------------------------------------------ projections
\* A projection is [type, scaling, window_size, flags, has_discontinuity]
\* (has_discontinuity: the intersect_discontinuity callback is set).  Its
\* backward mapping takes normalized device coordinates to a view direction.

PROJ_FLIP_HORIZONTAL == 2

Projections ==
    { [type |-> "stereographic", scaling |-> 50, window_size |-> << 800, 600 >>,
       flags |-> 0, has_discontinuity |-> FALSE],
      [type |-> "stereographic", scaling |-> 50, window_size |-> << 800, 600 >>,
       flags |-> PROJ_FLIP_HORIZONTAL, has_discontinuity |-> FALSE],
      [type |-> "stereographic", scaling |-> 150, window_size |-> << 800, 600 >>,
       flags |-> 0, has_discontinuity |-> TRUE],
      [type |-> "orthographic", scaling |-> 100, window_size |-> << 800, 600 >>,
       flags |-> 0, has_discontinuity |-> FALSE] }

\* The perspective projections used for tiles: scaling is the tangent of half
\* the horizontal field of view.
QuadProjections ==
    { [type |-> "perspective", scaling |-> 100, window_size |-> << 800, 600 >>,
       flags |-> 0, has_discontinuity |-> FALSE],
      [type |-> "perspective", scaling |-> 200, window_size |-> << 800, 600 >>,
       flags |-> 0, has_discontinuity |-> FALSE] }

\* What a failed backward projection may leave in its output.
JunkVecs == { << 0, 0, One >>, << One, 0, 0 >>, << 0, 0, -One >> }

\* The backward mapping at the scaled device coordinates (X, Y).
ProjBackwardXY(proj, X, Y, junk) ==
    IF proj.type = "stereographic"
    THEN [ok |-> TRUE,
          v  |-> vec3_normalize(<< X * One, Y * One,
                                   RDiv(X * X + Y * Y - One * One, 2) >>)]
    ELSE IF proj.type = "perspective"
    THEN [ok |-> TRUE, v |-> vec3_normalize(<< X, Y, -One >>)]
    ELSE IF X * X + Y * Y > One * One
         THEN [ok |-> FALSE, v |-> junk]
         ELSE [ok |-> TRUE,
               v  |-> vec3_normalize(<< X, Y, -RSqrt(One * One - X * X - Y * Y) >>)]

ScalingX(proj) == IF (proj.flags \div PROJ_FLIP_HORIZONTAL) % 2 = 1
                  THEN -proj.scaling ELSE proj.scaling

ScalingY(proj) == RDiv(proj.scaling * proj.window_size[2], proj.window_size[1])

\* project(proj, PROJ_BACKWARD, ...): [ok, v].
ProjBackward(proj, p, junk) ==
    ProjBackwardXY(proj, RDiv(p[1] * ScalingX(proj), One),
                         RDiv(p[2] * ScalingY(proj), One), junk)

\* Distance of the near clip plane of the perspective projection.
Near == 1

\* project(proj, 0, 4, ...) of the perspective projection: a view position
\* << x, y, z, w >> to homogeneous clip coordinates.
ProjForward(proj, v) ==
    << RDiv(v[1] * One, ScalingX(proj)), RDiv(v[2] * One, ScalingY(proj)),
       -v[3] - RDiv(2 * Near * v[4], One), -v[3] >>

\* ------------------------------------------------------------- transforms
\* A mat4 is four columns << x, y, z, w >>; mat[4] is the translation.

MatRow(mat, i, v, n) ==
    IF n = 3 THEN mat[1][i] * v[1] + mat[2][i] * v[2] + mat[3][i] * v[3]
    ELSE mat[1][i] * v[1] + mat[2][i] * v[2] + mat[3][i] * v[3] + mat[4][i] * v[4]

mat4_mul_vec4(mat, v) ==
    << RDiv(MatRow(mat, 1, v, 4), One), RDiv(MatRow(mat, 2, v, 4), One),
       RDiv(MatRow(mat, 3, v, 4), One), RDiv(MatRow(mat, 4, v, 4), One) >>

\* The linear part only.
mat4_mul_vec3_dir(mat, v) ==
    << RDiv(MatRow(mat, 1, v, 3), One), RDiv(MatRow(mat, 2, v, 3), One),
       RDiv(MatRow(mat, 3, v, 3), One) >>

Translation(t) == << << One, 0, 0, 0 >>, << 0, One, 0, 0 >>, << 0, 0, One, 0 >>,
                     << t[1], t[2], t[3], One >> >>

mat4_identity == Translation(<< 0, 0, 0 >>)

\* The transforms tried: none, and a body of radius 1 at distance 3 along -z.
Transforms == { mat4_identity, Translation(<< 0, 0, -3 * One >>) }

\* convert_framev4: the rotation, on a position << x, y, z, w >>.
convert_framev4(obs, origin, dest, v) ==
    << convert_frame(obs, origin, dest, v)[1], convert_frame(obs, origin, dest, v)[2],
       convert_frame(obs, origin, dest, v)[3], v[4] >>

\* ------------------------------------------------------------------ state

VARIABLES
    painter,    \* the painter_t: proj, obs, flags, transform, color, tex (the
                \* texture of the slot PAINTER_TEX_COLOR), clip_info
    meas,       \* per frame, what the latest compute_viewport_cap measured
    last,       \* the latest call: its name, arguments and result
    calls       \* what the latest paint call did, in order: the tests it
                \* made and the renderer entry points it invoked

vars == << painter, meas, last, calls >>

PAINTER_HIDE_BELOW_HORIZON == 4

PAINTER_SKIP_DISCONTINUOUS == 1

ZeroCap == << 0, 0, 0, 0 >>

ZeroClipInfo == [bounding_cap |-> ZeroCap, nb_viewport_caps |-> 0,
                 viewport_caps |-> << ZeroCap, ZeroCap, ZeroCap, ZeroCap >>,
                 sky_cap |-> ZeroCap]

\* Bit test: flags & bit.
HasFlag(flags, bit) == (flags \div bit) % 2 = 1

\* ---------------------------------------------------------- unprojection

\* Lines 833-834 with y' = y/H*2 - 1 (the y axis not turned over).
WinToNdc_NoFlip(p, win_pos) ==
    << RDiv(win_pos[1] * 2 * One, p.proj.window_size[1]) - One,
       RDiv(win_pos[2] * 2 * One, p.proj.window_size[2]) - One >>

\* Lines 833-834: window to normalized device coordinates.
WinToNdc(p, win_pos) ==
    << RDiv(win_pos[1] * 2 * One, p.proj.window_size[1]) - One,
       One - RDiv(win_pos[2] * 2 * One, p.proj.window_size[2]) >>

\* Line 837 on the result b of line 836.
Unprojected(p, frame, b) ==
    [ret |-> b.ok, pos |-> convert_frame(p.obs, FRAME_VIEW, frame, b.v)]

painter_unproject(p, frame, win_pos, junk) ==
    Unprojected(p, frame, ProjBackward(p.proj, WinToNdc(p, win_pos), junk))

\* ------------------------------------------------------- viewport caps

MARGIN == 0

\* The loop of lines 96-99: max_sep after corners i..4.
RECURSIVE MaxSepLoop(_, _, _, _)
MaxSepLoop(i, max_sep, cap, p) ==
    IF i > 4 THEN max_sep
    ELSE MaxSepLoop(i + 1, max(max_sep, eraSepp(cap, p[i])), cap, p)

\* Lines 93-99 without line 93 (a failed unprojection is ignored).
MaxSep_NoFail(r, cap, p) == MaxSepLoop(1, 0, cap, p)

\* Lines 93-99: max_sep, from the result r of the unprojections, the centre
\* and the corners.
MaxSep(r, cap, p) == MaxSepLoop(1, IF ~r THEN M_PI ELSE 0, cap, p)

\* Lines 111-113 without the test: the side cap is never negated.
Oriented_NoFlip(side, cap) == side

\* Lines 111-113: the side cap, negated unless it contains the centre of cap.
Oriented(side, cap) ==
    IF ~cap_contains_vec3(side, Center(cap))
    THEN MkCap(vec3_mul(-1, Center(side)), side[4])
    ELSE side

\* Side cap i (1..4): lines 108-113.  vec3_copy and vec3_mul write three
\* components; the fourth keeps the value it had.
SideCap(i, p, cap, old) ==
    Oriented(MkCap(vec3_normalize(vec3_cross(p[i], p[(i % 4) + 1])), old[4]), cap)

\* Lines 100-114: the clip_info entry, from max_sep and the bounding cap.
WithCaps(old, max_sep, cap, pts) ==
    IF max_sep > M_PI_2
    THEN [old EXCEPT !.bounding_cap = cap]
    ELSE [old EXCEPT !.bounding_cap = cap,
                     !.nb_viewport_caps = 4,
                     !.viewport_caps =
                         [i \in 1..4 |-> SideCap(i, pts, cap, old.viewport_caps[i])]]

Measured(old, r, max_sep, c, pts) ==
    [r |-> r, max_sep |-> max_sep, p |-> IF r THEN pts ELSE << >>,
     clip |-> WithCaps(old, max_sep, MkCap(c, Cos(max_sep)), pts)]

\* Lines 93-114, from the centre c and the four unprojected corners u.
FromCorners(old, c, r, pts) == Measured(old, r, MaxSep(r, c, pts), c, pts)

Unprojections(old, c, u) ==
    FromCorners(old, c, u[1].ret /\ u[2].ret /\ u[3].ret /\ u[4].ret,
                << u[1].pos, u[2].pos, u[3].pos, u[4].pos >>)

\* The window size of the painter's projection.
WinW(p) == p.proj.window_size[1]

WinH(p) == p.proj.window_size[2]

\* compute_viewport_cap: the new clip_info[frame], with what was measured
\* (r, max_sep and the corners p).
compute_viewport_cap(p, frame, junk) ==
    Unprojections(
        p.clip_info[frame],
        painter_unproject(p, frame, << WinW(p) \div 2, WinH(p) \div 2 >>, junk).pos,
        << painter_unproject(p, frame, << MARGIN, MARGIN >>, junk),
           painter_unproject(p, frame, << WinW(p) - MARGIN, MARGIN >>, junk),
           painter_unproject(p, frame, << WinW(p) - MARGIN, WinH(p) - MARGIN >>, junk),
           painter_unproject(p, frame, << MARGIN, WinH(p) - MARGIN >>, junk) >>)

\* compute_sky_cap: the zenith of the observed frame, in the frame, with a
\* half angle of 91 degrees.
compute_sky_cap(obs, frame) ==
    MkCap(convert_frame(obs, FRAME_OBSERVED, frame, << 0, 0, One >>), Cos(91))

\* painter_update_clip_info: every frame's viewport caps and sky cap.
painter_update_clip_info(junk) ==
    /\ painter' = [painter EXCEPT !.clip_info =
                      [i \in Frames |->
                          LET m == compute_viewport_cap(painter, i, junk)
                          IN [m.clip EXCEPT !.sky_cap = compute_sky_cap(painter.obs, i)]]]
    /\ meas' = [i \in Frames |->
                   LET m == compute_viewport_cap(painter, i, junk)
                   IN [fresh |-> TRUE, r |-> m.r, max_sep |-> m.max_sep, p |-> m.p]]
    /\ last' = [op |-> "painter_update_clip_info"]
    /\ calls' = << >>

\* ------------------------------------------------------------- clip tests

\* The loop of lines 391-396 over the side caps i..nb.
RECURSIVE SideCapsLoop(_, _, _)
SideCapsLoop(i, clipinfo, cap) ==
    IF i > clipinfo.nb_viewport_caps THEN FALSE
    ELSE IF ~cap_intersects_cap(clipinfo.viewport_caps[i], cap) THEN TRUE
    ELSE SideCapsLoop(i + 1, clipinfo, cap)

\* painter_is_cap_clipped testing the sky cap whatever the flags (line 384).
painter_is_cap_clipped_AlwaysHorizon(p, frame, cap) ==
    IF ~cap_intersects_cap(p.clip_info[frame].bounding_cap, cap) THEN TRUE
    ELSE IF ~cap_intersects_cap(p.clip_info[frame].sky_cap, cap) THEN TRUE
    ELSE IF p.clip_info[frame].nb_viewport_caps > 0
         THEN SideCapsLoop(1, p.clip_info[frame], cap)
    ELSE FALSE

painter_is_cap_clipped(p, frame, cap) ==
    IF ~cap_intersects_cap(p.clip_info[frame].bounding_cap, cap) THEN TRUE
    ELSE IF /\ HasFlag(p.flags, PAINTER_HIDE_BELOW_HORIZON)
            /\ ~cap_intersects_cap(p.clip_info[frame].sky_cap, cap) THEN TRUE
    ELSE IF p.clip_info[frame].nb_viewport_caps > 0
         THEN SideCapsLoop(1, p.clip_info[frame], cap)
    ELSE FALSE

\* ---------------------------------------------------------- specification

TestDirs == { << 0, 0, One >>, << 0, 0, -One >>, << 0, -71, -71 >>,
              << 71, 0, -71 >>, << 0, 71, 71 >> }

\* The caps handed to the cap test: points and caps of 30 degrees.
TestCaps == { MkCap(c, d) : c \in TestDirs, d \in { One, Cos(30) } }

PainterFlags == { 0, PAINTER_HIDE_BELOW_HORIZON }

NoMeas == [fresh |-> FALSE, r |-> FALSE, max_sep |-> 0, p |-> << >>]

InitPainter(o) ==
               [proj      |-> CHOOSE q \in Projections :
                                 q.scaling = 50 /\ q.flags = 0,
                obs       |-> o,
                flags     |-> 0,
                transform |-> mat4_identity,
                color     |-> << One, One, One, One >>,
                tex       |-> "NULL",
                lines_stripes |-> 0,
                clip_info |-> [i \in Frames |-> ZeroClipInfo]]

Init ==
    /\ \E o \in Observers : painter = InitPainter(o)
    /\ meas = [i \in Frames |-> NoMeas]
    /\ last = [op |-> "init"]
    /\ calls = << >>

\* The camera or the projection changes (core code, between frames).
SetProjection(q) ==
    /\ painter' = [painter EXCEPT !.proj = q]
    /\ last' = [op |-> "set"]
    /\ UNCHANGED << meas, calls >>

SetFlags(f) ==
    /\ painter' = [painter EXCEPT !.flags = f]
    /\ last' = [op |-> "set"]
    /\ UNCHANGED << meas, calls >>

IsCapClipped(frame, cap) ==
    /\ last' = [op |-> "painter_is_cap_clipped", frame |-> frame, cap |-> cap,
                ret |-> painter_is_cap_clipped(painter, frame, cap)]
    /\ calls' = << >>
    /\ UNCHANGED << painter, meas >>

Next ==
    \/ \E q \in Projections : SetProjection(q)
    \/ \E f \in PainterFlags : SetFlags(f)
    \/ \E junk \in JunkVecs : painter_update_clip_info(junk)
    \/ \E frame \in Frames, cap \in TestCaps : IsCapClipped(frame, cap)

Spec == Init /\ [][Next]_vars

\* ------------------------------------------------------- frustum clip test
\* is_clipped works on homogeneous clip coordinates << x, y, z, w >>; the
\* test is linear, so whole numbers stand for the doubles.

\* The six plane equations of lines 27-31.
P == << << -1, 0, 0, -1 >>, << 1, 0, 0, -1 >>,
        << 0, -1, 0, -1 >>, << 0, 1, 0, -1 >>,
        << 0, 0, -1, -1 >>, << 0, 0, 1, -1 >> >>

\* Lines 35-38: P[p] . pos
PlaneDot(p, q) == P[p][1] * q[1] + P[p][2] * q[2] + P[p][3] * q[3] + P[p][4] * q[4]

\* The loop of lines 34-41: the index at which it stops (n + 1 when no point
\* broke out of it; indices start at 1).
RECURSIVE PointsLoop(_, _, _, _)
PointsLoop(p, i, n, pos) ==
    IF i > n THEN i
    ELSE IF PlaneDot(p, pos[i]) <= 0 THEN i
    ELSE PointsLoop(p, i + 1, n, pos)

\* The loop of lines 33-44 over the planes p..np.
RECURSIVE PlanesLoop(_, _, _, _)
PlanesLoop(p, np, n, pos) ==
    IF p > np THEN FALSE
    ELSE IF PointsLoop(p, 1, n, pos) = n + 1 THEN TRUE
    ELSE PlanesLoop(p + 1, np, n, pos)

\* is_clipped looking at five of the six planes.
is_clipped_FivePlanes(n, pos) == PlanesLoop(1, 5, n, pos)

is_clipped(n, pos) == PlanesLoop(1, 6, n, pos)

\* The clip-space points tried: inside the clip volume, and outside it on
\* either side of x, below y, beyond z, and behind the eye (w < 0).
ClipPoints == { << x, y, z, 1 >> : x \in { -2, 0, 2 }, y \in { -2, 0 }, z \in { 0, 2 } }
                  \cup { << 0, 0, 0, -1 >> }

MaxPoints == 2

RECURSIVE PointLists(_)
PointLists(n) ==
    IF n = 0 THEN { << >> }
    ELSE PointLists(n - 1)
           \cup { Append(l, q) : l \in { m \in PointLists(n - 1) : Len(m) = n - 1 },
                                 q \in ClipPoints }

InitClip ==
    /\ painter = InitPainter("horizon")
    /\ meas = [i \in Frames |-> NoMeas]
    /\ \E pos \in PointLists(MaxPoints) : last = [op |-> "input", pos |-> pos]
    /\ calls = << >>

IsClipped ==
    /\ last.op = "input"
    /\ last' = [op |-> "is_clipped", n |-> Len(last.pos), pos |-> last.pos,
                ret |-> is_clipped(Len(last.pos), last.pos)]
    /\ UNCHANGED << painter, meas, calls >>

NextClip == IsClipped

SpecClip == InitClip /\ [][NextClip]_vars

\* ------------------------------------------------------------------ tiles
\* A uv_map is [order, face, x, y]: the tile (x, y) of the 2^order by 2^order
\* grid laid on one face of the cube around the unit sphere, pushed onto the
\* sphere.  Face coordinates run over -GridHalf..GridHalf.

GridHalf == 4

TileFaces == { "px", "pz", "nz" }

TileSide(map) == (2 * GridHalf) \div (2 ^ map.order)

\* The point (u, v) of a face, before normalization.
FacePoint(face, u, v) ==
    IF face = "px" THEN << GridHalf, u, v >>
    ELSE IF face = "pz" THEN << u, v, GridHalf >>
    ELSE << -u, v, -GridHalf >>

\* The face coordinates of the point (a / 2, b / 2) of the tile's uv square.
TilePoint(map, a, b) ==
    FacePoint(map.face,
              ((2 * map.x + a) * TileSide(map)) \div 2 - GridHalf,
              ((2 * map.y + b) * TileSide(map)) \div 2 - GridHalf)

\* uv_map at the corner uv (each coordinate 0 or 1) of the uv square: a
\* position on the unit sphere.
uv_map(map, uv) ==
    MkCap(vec3_normalize(TilePoint(map, 2 * uv[1], 2 * uv[2])), One)

\* Every tile of the orders 0..2.
Tiles == { [order |-> o, face |-> f, x |-> x, y |-> y] :
               o \in 0..2, f \in TileFaces, x \in 0..3, y \in 0..3 }

\* The four corners of each tile.
GridTab == [map \in Tiles |->
               << Center(uv_map(map, << 0, 0 >>)), Center(uv_map(map, << 1, 0 >>)),
                  Center(uv_map(map, << 0, 1 >>)), Center(uv_map(map, << 1, 1 >>)) >>]

\* uv_map_grid(map, 1, ...): the four corners.
uv_map_grid(map) == GridTab[map]

Min4(a, b, c, d) == -max(max(-a, -b), max(-c, -d))

CapAround(c, corners) ==
    MkCap(c, Min4(CosSep(c, corners[1]), CosSep(c, corners[2]),
                  CosSep(c, corners[3]), CosSep(c, corners[4])))

\* uv_map_get_bounding_cap: the cap around the middle of the tile that
\* reaches its corners.
BoundingCapTab == [map \in Tiles |->
                      CapAround(vec3_normalize(TilePoint(map, 1, 1)), GridTab[map])]

uv_map_get_bounding_cap(map) == BoundingCapTab[map]

\* uv_map_subdivide: the four children, one order up.
uv_map_subdivide(map) ==
    << [map EXCEPT !.order = @ + 1, !.x = 2 * @, !.y = 2 * @],
       [map EXCEPT !.order = @ + 1, !.x = 2 * @ + 1, !.y = 2 * @],
       [map EXCEPT !.order = @ + 1, !.x = 2 * @, !.y = 2 * @ + 1],
       [map EXCEPT !.order = @ + 1, !.x = 2 * @ + 1, !.y = 2 * @ + 1] >>

\* --------------------------------------------------------- tile clip test
\* painter_is_quad_clipped gives [ret, at]: the value returned and the line
\* of the return statement that returned it.

\* Lines 452-453: the bounding cap of the tile, its direction transformed.
TransformedCap(p, cap) == MkCap(mat4_mul_vec3_dir(p.transform, Center(cap)), cap[4])

\* Lines 477-479, for each transform and tile: the corners, as positions
\* (w = 1), transformed.
QuadTab == [t \in Transforms |-> [map \in Tiles |-> [i \in 1..4 |->
               mat4_mul_vec4(t, MkCap(uv_map_grid(map)[i], One))]]]

\* Lines 480-481: a transformed corner in clip coordinates.
ClipCorner(p, frame, q) ==
    ProjForward(p.proj, convert_framev4(p.obs, frame, FRAME_VIEW, q))

ClipCorners(p, frame, map) ==
    << ClipCorner(p, frame, QuadTab[p.transform][map][1]),
       ClipCorner(p, frame, QuadTab[p.transform][map][2]),
       ClipCorner(p, frame, QuadTab[p.transform][map][3]),
       ClipCorner(p, frame, QuadTab[p.transform][map][4]) >>

\* Lines 496-497, for each transform: the direction of the middle of the body.
DirectionTab == [t \in Transforms |-> vec3_normalize(Center(t[4]))]

\* Lines 496-499.
Direction(p, frame) ==
    convert_frame(p.obs, frame, FRAME_VIEW, DirectionTab[p.transform])

\* Lines 501-504, for each transform and tile: the corners, as directions
\* (w = 0), transformed and normalized.
NormalTab == [t \in Transforms |-> [map \in Tiles |-> [i \in 1..4 |->
                 vec3_normalize(Center(mat4_mul_vec4(t, MkCap(uv_map_grid(map)[i], 0))))]]]

\* Lines 501-506: the normal at corner i.
Normal(p, frame, map, i) ==
    convert_frame(p.obs, frame, FRAME_VIEW, NormalTab[p.transform][map][i])

\* What a return statement that made no recursive call answers.
Leaf(ret, at) == [ret |-> ret, at |-> at, nb |-> 0, depth |-> 0]

\* The loop of lines 500-508 over the corners i..4, and line 509.
RECURSIVE NormalsLoop(_, _, _, _, _)
NormalsLoop(i, p, frame, map, direction) ==
    IF i > 4 THEN Leaf(TRUE, 509)
    ELSE IF vec3_dot(Normal(p, frame, map, i), direction) < 0
         THEN Leaf(FALSE, 507)
    ELSE NormalsLoop(i + 1, p, frame, map, direction)

\* Lines 475-512 without the frustum test of line 484.
Sampled_NoFrustum(p, frame, map, outside) ==
    IF ~outside /\ map.order > 1
    THEN NormalsLoop(1, p, frame, map, Direction(p, frame))
    ELSE Leaf(FALSE, 512)

\* Lines 475-512 with the back-face test applied whatever outside is.
Sampled_BackFaceAlways(p, frame, map, outside) ==
    IF is_clipped(4, ClipCorners(p, frame, map)) THEN Leaf(TRUE, 484)
    ELSE NormalsLoop(1, p, frame, map, Direction(p, frame))

\* Lines 475-512.
Sampled(p, frame, map, outside) ==
    IF is_clipped(4, ClipCorners(p, frame, map)) THEN Leaf(TRUE, 484)
    ELSE IF ~outside /\ map.order > 1
         THEN NormalsLoop(1, p, frame, map, Direction(p, frame))
    ELSE Leaf(FALSE, 512)

\* painter_is_quad_clipped answering for low orders before the cap test.
painter_is_quad_clipped_LowOrderFirst(p, frame, map, outside) ==
    IF outside /\ map.order < 2 THEN Leaf(FALSE, 458)
    ELSE IF outside /\ painter_is_cap_clipped(p, frame,
                           TransformedCap(p, uv_map_get_bounding_cap(map)))
         THEN Leaf(TRUE, 456)
    ELSE Sampled(p, frame, map, outside)

\* painter_is_quad_clipped with the subdivision of lines 463-473 made for
\* outside = true too.
RECURSIVE ChildrenLoop(_, _, _, _, _, _, _)
painter_is_quad_clipped_SubdivideOutside(p, frame, map, outside) ==
    IF outside /\ painter_is_cap_clipped(p, frame,
                      TransformedCap(p, uv_map_get_bounding_cap(map)))
    THEN Leaf(TRUE, 456)
    ELSE IF map.order < 2
         THEN ChildrenLoop(1, p, frame, uv_map_subdivide(map), outside, 0, 0)
    ELSE Sampled(p, frame, map, outside)

RECURSIVE painter_is_quad_clipped(_, _, _, _)

\* The loop of lines 467-471 stopping at the first clipped child.
RECURSIVE ChildrenLoop_Any(_, _, _, _, _, _, _)
ChildrenLoop_Any(i, p, frame, children, outside, nb, depth) ==
    IF i > 4 THEN [ret |-> FALSE, at |-> 470, nb |-> nb, depth |-> depth]
    ELSE IF painter_is_quad_clipped(p, frame, children[i], outside).ret
         THEN [ret |-> TRUE, at |-> 472, nb |-> nb + 1, depth |-> max(depth, 1)]
    ELSE ChildrenLoop_Any(i + 1, p, frame, children, outside, nb + 1, max(depth, 1))

\* Lines 468-470, from the answer r for child i.
ChildStep(i, p, frame, children, outside, nb, depth, r) ==
    IF ~r.ret
    THEN [ret |-> FALSE, at |-> 470, nb |-> nb, depth |-> depth]
    ELSE ChildrenLoop(i + 1, p, frame, children, outside, nb, depth)

\* Line 468: the call for child i returned r; the calls made below the tile
\* are now nb + 1 + r.nb and the levels descended max(depth, 1 + r.depth).
ChildTested(i, p, frame, children, outside, r, nb, depth) ==
    ChildStep(i, p, frame, children, outside,
              nb + 1 + r.nb, max(depth, 1 + r.depth), r)

\* The loop of lines 467-471 over the children i..4, and line 472; nb and
\* depth count the calls made below the tile and the levels descended.
ChildrenLoop(i, p, frame, children, outside, nb, depth) ==
    IF i > 4 THEN [ret |-> TRUE, at |-> 472, nb |-> nb, depth |-> depth]
    ELSE ChildTested(i, p, frame, children, outside,
                     painter_is_quad_clipped(p, frame, children[i], outside),
                     nb, depth)

painter_is_quad_clipped(p, frame, map, outside) ==
    IF outside /\ painter_is_cap_clipped(p, frame,
                      TransformedCap(p, uv_map_get_bounding_cap(map)))
    THEN Leaf(TRUE, 456)
    ELSE IF outside /\ map.order < 2 THEN Leaf(FALSE, 458)
    ELSE IF map.order < 2
         THEN ChildrenLoop(1, p, frame, uv_map_subdivide(map), outside, 0, 0)
    ELSE Sampled(p, frame, map, outside)

\* The tiles tried: the faces, their quarters, and six tiles of order 2.
TestTiles ==
    { [order |-> 0, face |-> f, x |-> 0, y |-> 0] : f \in TileFaces }
      \cup { [order |-> 1, face |-> f, x |-> x, y |-> y] :
                 f \in TileFaces, x \in 0..1, y \in 0..1 }
      \cup { [order |-> 2, face |-> "nz", x |-> x, y |-> y] :
                 x \in 1..2, y \in { 0, 2 } }
      \cup { [order |-> 2, face |-> "pz", x |-> 1, y |-> 1],
              [order |-> 2, face |-> "px", x |-> 2, y |-> 2] }

InitQuad ==
    /\ \E o \in Observers, q \in QuadProjections :
           painter = [InitPainter(o) EXCEPT !.proj = q]
    /\ meas = [i \in Frames |-> NoMeas]
    /\ last = [op |-> "init"]
    /\ calls = << >>

\* The caller sets the transform of the shape to draw.
SetTransform(t) ==
    /\ painter' = [painter EXCEPT !.transform = t]
    /\ last' = [op |-> "set"]
    /\ UNCHANGED << meas, calls >>

\* outside = false is the case of a body: its middle is not the observer
\* (the direction of line 497 exists).
QuadCall(frame, map, outside, r) ==
    [op |-> "painter_is_quad_clipped", frame |-> frame, map |-> map,
     outside |-> outside, ret |-> r.ret, at |-> r.at,
     nb |-> r.nb, depth |-> r.depth]

IsQuadClipped(frame, map, outside) ==
    /\ outside \/ Center(painter.transform[4]) # << 0, 0, 0 >>
    /\ last' = QuadCall(frame, map, outside,
                        painter_is_quad_clipped(painter, frame, map, outside))
    /\ calls' = << >>
    /\ UNCHANGED << painter, meas >>

\* (The perspective backward mapping never fails: no junk to choose.)
NextQuad ==
    \/ \E f \in PainterFlags : SetFlags(f)
    \/ \E t \in Transforms : SetTransform(t)
    \/ painter_update_clip_info(<< 0, 0, One >>)
    \/ \E frame \in Frames, map \in TestTiles, outside \in BOOLEAN :
           IsQuadClipped(frame, map, outside)

SpecQuad == InitQuad /\ [][NextQuad]_vars

\* ---------------------------------------------------------- paint dispatch
\* A paint function leaves in calls the sequence of its tests
\* ([fn, ..., ret]) and of its REND dispatches ([fn |-> "quad" | "mesh" |
\* "line", ...]).  A pointer that may be NULL is a sequence of at most one
\* element; a texture is "NULL", "loaded" or "missing".

texture_load(tex) == tex = "loaded"

\* paint_quad, lines 191-199.
QuadCalls(p, frame, map, grid_size) ==
    IF p.tex # "NULL" /\ ~texture_load(p.tex) THEN << >>
    ELSE IF p.color[4] = 0 THEN << >>
    ELSE << [fn |-> "quad", frame |-> frame, grid_size |-> grid_size, map |-> map] >>

\* The discontinuity predicate of the projections that have one: the seam
\* is the half plane x = 0 behind the viewer.
intersect_discontinuity(a, b) == a[1] * b[1] < 0 /\ ~(a[3] < 0 /\ b[3] < 0)

\* Lines 274-281: an end of the line in the view frame.
ViewPos(p, frame, map, pt) ==
    convert_frame(p.obs, frame, FRAME_VIEW,
        vec3_normalize(Center(mat4_mul_vec4(p.transform,
            IF map = << >> THEN pt ELSE uv_map(map[1], pt)))))

\* Lines 287-291: line_tesselate and the renderer.
LineCall(frame, line, map, split) ==
    [fn |-> "line", frame |-> frame, line |-> line, map |-> map, split |-> split]

\* Lines 283-291, from the answer of the predicate.
Guarded(frame, line, map, split, crossing) ==
    IF crossing THEN << [fn |-> "intersect_discontinuity", ret |-> TRUE] >>
    ELSE << [fn |-> "intersect_discontinuity", ret |-> FALSE],
            LineCall(frame, line, map, split) >>

\* paint_line testing every line, whatever the flags (line 269).
paint_line_AlwaysSkip(p, frame, line, map, split, flags) ==
    IF p.proj.has_discontinuity
    THEN Guarded(frame, line, map, split,
                 intersect_discontinuity(ViewPos(p, frame, map, line[1]),
                                         ViewPos(p, frame, map, line[2])))
    ELSE << LineCall(frame, line, map, split) >>

paint_line(p, frame, line, map, split, flags) ==
    IF HasFlag(flags, PAINTER_SKIP_DISCONTINUOUS) /\ p.proj.has_discontinuity
    THEN Guarded(frame, line, map, split,
                 intersect_discontinuity(ViewPos(p, frame, map, line[1]),
                                         ViewPos(p, frame, map, line[2])))
    ELSE << LineCall(frame, line, map, split) >>

\* The loop of lines 306-307 from the point i of the nb points of lines.
RECURSIVE LinesLoop(_, _, _, _, _, _, _)
LinesLoop(i, p, frame, lines, map, split, flags) ==
    IF i > Len(lines) THEN << >>
    ELSE paint_line(p, frame, << lines[i], lines[i + 1] >>, map, split, flags)
           \o LinesLoop(i + 2, p, frame, lines, map, split, flags)

\* Lines 532-537: the four borders of the uv square.
ContourLines == << << << 0, 0, 0, 0 >>, << 1, 0, 0, 0 >> >>,
                   << << 1, 0, 0, 0 >>, << 1, 1, 0, 0 >> >>,
                   << << 1, 1, 0, 0 >>, << 0, 1, 0, 0 >> >>,
                   << << 0, 1, 0, 0 >>, << 0, 0, 0, 0 >> >> >>

\* The loop of lines 539-542 over the borders i..4 (bit i - 1 of the mask).
RECURSIVE ContourLoop(_, _, _, _, _, _)
ContourLoop(i, p, frame, map, split, borders_mask) ==
    IF i > 4 THEN << >>
    ELSE (IF HasFlag(borders_mask, 2 ^ (i - 1))
          THEN paint_line(p, frame, ContourLines[i], << map >>, split, 0)
          ELSE << >>)
           \o ContourLoop(i + 1, p, frame, map, split, borders_mask)

\* Lines 340-366, from the answer of the cap test.
MeshTested(frame, indices_count, bounding_cap, clipped) ==
    IF clipped
    THEN << [fn |-> "painter_is_cap_clipped", frame |-> frame,
             cap |-> bounding_cap, ret |-> TRUE] >>
    ELSE << [fn |-> "painter_is_cap_clipped", frame |-> frame,
             cap |-> bounding_cap, ret |-> FALSE],
            [fn |-> "mesh", frame |-> frame, indices_count |-> indices_count] >>

\* paint_mesh without the test of line 340.
MeshCalls_NoTest(p, frame, indices_count, bounding_cap) ==
    IF indices_count = 0 THEN << >>
    ELSE << [fn |-> "mesh", frame |-> frame, indices_count |-> indices_count] >>

\* paint_mesh, lines 337-366.
MeshCalls(p, frame, indices_count, bounding_cap) ==
    IF indices_count = 0 THEN << >>
    ELSE MeshTested(frame, indices_count, bounding_cap,
                    painter_is_cap_clipped(p, frame, bounding_cap))

paint_quad(frame, map, grid_size) ==
    /\ last' = [op |-> "paint_quad", frame |-> frame, map |-> map]
    /\ calls' = QuadCalls(painter, frame, map, grid_size)
    /\ UNCHANGED << painter, meas >>

paint_lines(frame, lines, map, split, flags) ==
    /\ last' = [op |-> "paint_lines", frame |-> frame, lines |-> lines,
                map |-> map, split |-> split, flags |-> flags]
    /\ calls' = LinesLoop(1, painter, frame, lines, map, split, flags)
    /\ UNCHANGED << painter, meas >>

paint_quad_contour(frame, map, split, borders_mask) ==
    /\ last' = [op |-> "paint_quad_contour", frame |-> frame, map |-> map,
                split |-> split, borders_mask |-> borders_mask]
    /\ calls' = ContourLoop(1, painter, frame, map, split, borders_mask)
    /\ UNCHANGED << painter, meas >>

paint_mesh(frame, indices_count, bounding_cap) ==
    /\ last' = [op |-> "paint_mesh", frame |-> frame,
                indices_count |-> indices_count, bounding_cap |-> bounding_cap]
    /\ calls' = MeshCalls(painter, frame, indices_count, bounding_cap)
    /\ UNCHANGED << painter, meas >>

\* painter_set_texture on the slot PAINTER_TEX_COLOR (the slot must be free).
painter_set_texture(tex) ==
    /\ painter.tex = "NULL"
    /\ painter' = [painter EXCEPT !.tex = tex]
    /\ last' = [op |-> "set"]
    /\ UNCHANGED << meas, calls >>

\* The caller sets the alpha of painter->color.
SetColor(alpha) ==
    /\ painter' = [painter EXCEPT !.color[4] = alpha]
    /\ last' = [op |-> "set"]
    /\ UNCHANGED << meas, calls >>

\* Ends of lines, as directions (w = 0) of the frame.
TestLines ==
    LET A == << 71, 0, 71, 0 >>
        B == << -71, 0, 71, 0 >>
        C == << 71, 0, -71, 0 >>
        D == << -71, 0, -71, 0 >>
    IN { << >>, << A, B >>, << C, D >>, << A, B, C, D >>, << C, D, A, B >>,
         << A, C, A, B, C, D >> }

\* The bounding caps of the meshes: 30 degrees around -z and around +z.
MeshCaps == { MkCap(<< 0, 0, -One >>, Cos(30)), MkCap(<< 0, 0, One >>, Cos(30)) }

InitPaint ==
    /\ \E o \in Observers, q \in { r \in Projections : r.flags = 0 /\ r.type = "stereographic" } :
           painter = [InitPainter(o) EXCEPT !.proj = q]
    /\ meas = [i \in Frames |-> NoMeas]
    /\ last = [op |-> "init"]
    /\ calls = << >>

\* (The stereographic backward mapping never fails: no junk to choose.)
NextPaint ==
    \/ \E tex \in { "loaded", "missing" } : painter_set_texture(tex)
    \/ \E alpha \in { 0, One } : SetColor(alpha)
    \/ painter_update_clip_info(<< 0, 0, One >>)
    \/ \E frame \in Frames : paint_quad(frame, [order |-> 1, face |-> "nz", x |-> 0, y |-> 0], 4)
    \/ \E frame \in Frames, lines \in TestLines, flags \in { 0, PAINTER_SKIP_DISCONTINUOUS } :
           paint_lines(frame, lines, << >>, 8, flags)
    \/ \E frame \in Frames, borders_mask \in { 0, 5, 15 } :
           paint_quad_contour(frame, [order |-> 1, face |-> "nz", x |-> 0, y |-> 0],
                              8, borders_mask)
    \/ \E frame \in Frames, indices_count \in { 0, 3 }, cap \in MeshCaps :
           paint_mesh(frame, indices_count, cap)

SpecPaint == InitPaint /\ [][NextPaint]_vars

\* ---------------------------------------------------------------------------
\* paint_2d_ellipse (lines 631-671) and the caller's painter.
\* A call is followed through a pair: caller, the object painter_ points to,
\* and painter, the local variable of the function.

\* Line 636: painter_t painter = *painter_;
Copied(p) == [caller |-> p, painter |-> p]

\* Lines 639-645 with transf = NULL: m is the translation by pos of the
\* scaling by size, so a2 and b2 are the squares of the two sizes.
EllipseA2(size) == size[1] * size[1]

EllipseB2(size) == size[2] * size[2]

\* Line 654: 2 * M_PI * sqrt((a2 + b2) / 2), with pi as 314 / 100.
Perimeter(a2, b2) == (2 * 314 * RSqrt((a2 + b2) \div 2)) \div 100

\* Lines 651-656, writing the stripes through painter_ as well.
Striped_ThroughPointer(st, dashes, a2, b2) ==
    [st EXCEPT !.painter.lines_stripes =
                   IF dashes # 0 THEN Perimeter(a2, b2) \div dashes ELSE 0,
               !.caller.lines_stripes =
                   IF dashes # 0 THEN Perimeter(a2, b2) \div dashes ELSE 0]

\* Lines 651-656: the number of dashes, set in the local painter.
Striped(st, dashes, a2, b2) ==
    [st EXCEPT !.painter.lines_stripes =
                   IF dashes # 0 THEN Perimeter(a2, b2) \div dashes ELSE 0]

\* Lines 658-662: the renderer is handed the local painter, the centre m[2],
\* the sizes sqrt(a2), sqrt(b2) and the angle atan2(0, size[0]) = 0.
EllipseCalls(st, pos, a2, b2) ==
    << [fn |-> "ellipse_2d", painter |-> st.painter, p |-> pos,
        s |-> << RSqrt(a2), RSqrt(b2) >>, angle |-> 0] >>

\* The function up to its return, from the pair after line 656 (label_pos,
\* lines 664-671, is an output argument and is left out).
EllipsePainted(st, dashes, pos, size) ==
    /\ painter' = st.caller
    /\ calls' = EllipseCalls(st, pos, EllipseA2(size), EllipseB2(size))
    /\ last' = [op |-> "paint_2d_ellipse", dashes |-> dashes, pos |-> pos,
                size |-> size, before |-> painter]
    /\ UNCHANGED meas

paint_2d_ellipse(dashes, pos, size) ==
    EllipsePainted(Striped(Copied(painter), dashes,
                           EllipseA2(size), EllipseB2(size)),
                   dashes, pos, size)

\* The caller sets painter->lines_stripes.
SetLinesStripes(n) ==
    /\ painter' = [painter EXCEPT !.lines_stripes = n]
    /\ last' = [op |-> "set"]
    /\ UNCHANGED << meas, calls >>

\* The sizes of the ellipses, in pixels: a circle and a flat ellipse.
EllipseSizes == { << 10, 10 >>, << 30, 20 >> }

\* The centres of the ellipses, in window space.
EllipsePositions == { << 400, 300 >>, << 100, 500 >> }

NextEllipse ==
    \/ \E f \in PainterFlags : SetFlags(f)
    \/ \E alpha \in { 0, One } : SetColor(alpha)
    \/ \E n \in { 0, 8 } : SetLinesStripes(n)
    \/ painter_update_clip_info(<< 0, 0, One >>)
    \/ \E frame \in Frames, indices_count \in { 0, 3 }, cap \in MeshCaps :
           paint_mesh(frame, indices_count, cap)
    \/ \E dashes \in { 0, 5 }, pos \in EllipsePositions, size \in EllipseSizes :
           paint_2d_ellipse(dashes, pos, size)

SpecEllipse == InitPaint /\ [][NextEllipse]_vars

\* ------------------------------------------------- projection round trip

\* a / b rounded to the nearest integer, for b of either sign.
SDiv(a, b) == IF b < 0 THEN RDiv(-a, -b) ELSE RDiv(a, b)

\* The forward mapping of a view direction v of length One: [ok, X, Y], the
\* scaled device coordinates, the inverse of ProjBackwardXY.
ProjForwardXY(proj, v) ==
    IF proj.type = "stereographic"
    THEN IF v[3] = One THEN [ok |-> FALSE, X |-> 0, Y |-> 0]
         ELSE [ok |-> TRUE, X |-> RDiv(One * v[1], One - v[3]),
                            Y |-> RDiv(One * v[2], One - v[3])]
    ELSE IF proj.type = "perspective"
    THEN IF v[3] >= 0 THEN [ok |-> FALSE, X |-> 0, Y |-> 0]
         ELSE [ok |-> TRUE, X |-> RDiv(One * v[1], -v[3]),
                            Y |-> RDiv(One * v[2], -v[3])]
    ELSE IF v[3] > 0 THEN [ok |-> FALSE, X |-> 0, Y |-> 0]
         ELSE [ok |-> TRUE, X |-> v[1], Y |-> v[2]]

\* Device to window coordinates: the inverse of WinToNdc and of the scaling.
ToWindow(proj, f) ==
    [ret |-> f.ok,
     win_pos |-> IF f.ok
                 THEN << proj.window_size[1] \div 2
                           + SDiv(f.X * proj.window_size[1], 2 * ScalingX(proj)),
                         proj.window_size[2] \div 2
                           - SDiv(f.Y * proj.window_size[2], 2 * ScalingY(proj)) >>
                 ELSE << >>]

\* project(proj, [PROJ_ALREADY_NORMALIZED |] PROJ_TO_WINDOW_SPACE, 2, v, out)
ProjToWindow(proj, normalized, v) ==
    ToWindow(proj, ProjForwardXY(proj, IF normalized THEN v ELSE vec3_normalize(v)))

\* The loop of lines 417-421 over the side caps i..nb.
RECURSIVE PointSideCapsLoop(_, _, _)
PointSideCapsLoop(i, clipinfo, v) ==
    IF i > clipinfo.nb_viewport_caps THEN FALSE
    ELSE IF ~cap_contains_vec3(clipinfo.viewport_caps[i], v) THEN TRUE
    ELSE PointSideCapsLoop(i + 1, clipinfo, v)

\* Lines 409-423, on the normalized position v.
PointClipped(p, frame, v) ==
    IF ~cap_contains_vec3(p.clip_info[frame].bounding_cap, v) THEN TRUE
    ELSE IF /\ HasFlag(p.flags, PAINTER_HIDE_BELOW_HORIZON)
            /\ ~cap_contains_vec3(p.clip_info[frame].sky_cap, v) THEN TRUE
    ELSE PointSideCapsLoop(1, p.clip_info[frame], v)

painter_is_point_clipped_fast(p, frame, pos, is_normalized) ==
    PointClipped(p, frame, IF is_normalized THEN pos ELSE vec3_normalize(pos))

\* painter_project: [ret, win_pos] (win_pos is not written on failure).
painter_project(p, frame, pos, at_inf, clip_first) ==
    IF clip_first /\ painter_is_point_clipped_fast(p, frame, pos, at_inf)
    THEN [ret |-> FALSE, win_pos |-> << >>]
    ELSE ProjToWindow(p.proj, at_inf, convert_frame(p.obs, frame, FRAME_VIEW, pos))

\* Window positions inside the 800 x 600 viewport: the centre and one point
\* in each quarter.
WinPoints == { << 400, 300 >>, << 200, 150 >>, << 600, 450 >>, << 100, 500 >>,
               << 700, 100 >> }

UnprojectCall(frame, win_pos, u) ==
    [op |-> "painter_unproject", frame |-> frame, win_pos |-> win_pos,
     ret |-> u.ret, pos |-> u.pos]

Unproject(frame, win_pos, junk) ==
    /\ last' = UnprojectCall(frame, win_pos,
                             painter_unproject(painter, frame, win_pos, junk))
    /\ calls' = << >>
    /\ UNCHANGED << painter, meas >>

ProjectCall(u, at_inf, clip_first, r) ==
    [op |-> "painter_project", frame |-> u.frame, from |-> u.win_pos,
     pos |-> u.pos, at_inf |-> at_inf, clip_first |-> clip_first,
     ret |-> r.ret, win_pos |-> r.win_pos]

\* painter_project of the position that the latest painter_unproject
\* returned, in the same frame.  (Line 817: the transform is the identity.)
Project(at_inf, clip_first) ==
    /\ last.op = "painter_unproject"
    /\ last.ret
    /\ painter.transform = mat4_identity
    /\ last' = ProjectCall(last, at_inf, clip_first,
                           painter_project(painter, last.frame, last.pos,
                                           at_inf, clip_first))
    /\ calls' = << >>
    /\ UNCHANGED << painter, meas >>

NextProject ==
    \/ \E q \in Projections : SetProjection(q)
    \/ \E f \in PainterFlags : SetFlags(f)
    \/ \E junk \in JunkVecs : painter_update_clip_info(junk)
    \/ \E frame \in Frames, win_pos \in WinPoints, junk \in JunkVecs :
           Unproject(frame, win_pos, junk)
    \/ \E at_inf \in BOOLEAN, clip_first \in BOOLEAN : Project(at_inf, clip_first)

SpecProject == Init /\ [][NextProject]_vars

\* ---------------------------------------------------------------------------
\* The window-space tests (lines 49-67 and 426-438), on whole pixels.

\* Lines 53-54, doubled: 2 * fabs(c - (rect[i] + rect[i + 2] / 2)).
CircleDist2(rect, c_center, i) ==
    Abs(2 * c_center[i] - (2 * rect[i] + rect[i + 2]))

\* Lines 56-65, from the two doubled distances.
Intersects(rect, r, dx, dy) ==
    IF dx > rect[3] + 2 * r THEN FALSE
    ELSE IF dy > rect[4] + 2 * r THEN FALSE
    ELSE IF dx <= rect[3] THEN TRUE
    ELSE IF dy <= rect[4] THEN TRUE
    ELSE (dx - rect[3]) * (dx - rect[3]) + (dy - rect[4]) * (dy - rect[4])
             <= 4 * r * r

intersect_circle_rect(rect, c_center, r) ==
    Intersects(rect, r, CircleDist2(rect, c_center, 1),
                        CircleDist2(rect, c_center, 2))

painter_is_2d_point_clipped(p, pt) ==
    /\ pt[1] >= 0
    /\ pt[1] <= WinW(p)
    /\ pt[2] >= 0
    /\ pt[2] <= WinH(p)

painter_is_2d_circle_clipped(p, pt, radius) ==
    ~intersect_circle_rect(<< 0, 0, WinW(p), WinH(p) >>, pt, radius)

\* Window positions: before, on and after each border, and the middle.
Points2D ==
    { << x, y >> : x \in { -10, 0, 400, 800, 810 },
                   y \in { -10, 0, 300, 600, 610 } }

\* The radii tried: a point, a circle that reaches a border from 10 pixels
\* away but not a corner, and one that reaches the corner too.
Radii == { 0, 10, 15 }

Is2dPointClipped(pt) ==
    /\ last' = [op |-> "painter_is_2d_point_clipped", p |-> pt,
                ret |-> painter_is_2d_point_clipped(painter, pt)]
    /\ calls' = << >>
    /\ UNCHANGED << painter, meas >>

Is2dCircleClipped(pt, radius) ==
    /\ last' = [op |-> "painter_is_2d_circle_clipped", p |-> pt,
                radius |-> radius,
                ret |-> painter_is_2d_circle_clipped(painter, pt, radius)]
    /\ calls' = << >>
    /\ UNCHANGED << painter, meas >>

Next2D ==
    \/ \E q \in Projections : SetProjection(q)
    \/ \E pt \in Points2D : Is2dPointClipped(pt)
    \/ \E pt \in Points2D, radius \in Radii : Is2dCircleClipped(pt, radius)

Spec2D == Init /\ [][Next2D]_vars

\* ------------------------------------------------------------------ claims

\* The clip_info entry the latest call consulted.
LastClip == painter.clip_info[last.frame]

\* C1: painter_is_cap_clipped(painter, frame, cap) returns true if and only
\* if the cap does not intersect the bounding cap, or the
\* PAINTER_HIDE_BELOW_HORIZON flag is set and the cap does not intersect the
\* sky cap, or the cap does not intersect one of the nb_viewport_caps side
\* caps of clip_info[frame].
C1_CapClippedIff ==
    last.op = "painter_is_cap_clipped" =>
        last.ret =
            ( \/ ~cap_intersects_cap(LastClip.bounding_cap, last.cap)
              \/ /\ HasFlag(painter.flags, PAINTER_HIDE_BELOW_HORIZON)
                 /\ ~cap_intersects_cap(LastClip.sky_cap, last.cap)
              \/ \E i \in 1..LastClip.nb_viewport_caps :
                    ~cap_intersects_cap(LastClip.viewport_caps[i], last.cap) )

\* A cap test that answered "clipped" although the cap meets the bounding cap
\* and, with the horizon flag unset, misses the sky cap: a side cap decided.
C1_Witness ==
    /\ last.op = "painter_is_cap_clipped"
    /\ last.ret
    /\ cap_intersects_cap(LastClip.bounding_cap, last.cap)
    /\ ~HasFlag(painter.flags, PAINTER_HIDE_BELOW_HORIZON)
    /\ ~cap_intersects_cap(LastClip.sky_cap, last.cap)
    /\ \E i \in 1..LastClip.nb_viewport_caps :
          ~cap_intersects_cap(LastClip.viewport_caps[i], last.cap)

\* C2: after any sequence of painter_update_clip_info calls interleaved with
\* projection changes, every frame holds 4 side caps when the latest refresh
\* measured a maximum separation <= pi/2 and 0 when it measured more (or an
\* unprojection failed), so that no clip test consults side caps of an
\* earlier refresh.
C2_SideCapsOfLatestRefresh ==
    \A f \in Frames :
        meas[f].fresh =>
            painter.clip_info[f].nb_viewport_caps =
                IF meas[f].max_sep <= M_PI_2 THEN 4 ELSE 0

\* C9: when the 4 corner unprojections succeed and the maximum separation is
\* <= pi/2, compute_viewport_cap leaves exactly 4 side caps, side cap i being
\* the normalized cross product of corner i and corner (i+1) mod 4, negated
\* or not so that it contains the centre of the bounding cap.
C9_FourOrientedSideCaps ==
    \A f \in Frames :
        (meas[f].fresh /\ meas[f].r /\ meas[f].max_sep <= M_PI_2) =>
            LET ci == painter.clip_info[f] IN
            /\ ci.nb_viewport_caps = 4
            /\ \A i \in 1..4 :
                 LET c == vec3_normalize(
                              vec3_cross(meas[f].p[i], meas[f].p[(i % 4) + 1]))
                 IN /\ Center(ci.viewport_caps[i]) \in { c, vec3_mul(-1, c) }
                    /\ cap_contains_vec3(ci.viewport_caps[i],
                                         Center(ci.bounding_cap))

\* A refresh that had to negate a cross product to orient a side cap.
C9_Witness ==
    \E f \in Frames :
        /\ meas[f].fresh /\ meas[f].r /\ meas[f].max_sep <= M_PI_2
        /\ painter.clip_info[f].nb_viewport_caps = 4
        /\ \E i \in 1..4 :
              LET c == vec3_normalize(
                           vec3_cross(meas[f].p[i], meas[f].p[(i % 4) + 1]))
              IN /\ Center(painter.clip_info[f].viewport_caps[i]) = vec3_mul(-1, c)
                 /\ ~cap_contains_vec3(MkCap(c, 0),
                                       Center(painter.clip_info[f].bounding_cap))

\* C10: if a corner unprojection fails during compute_viewport_cap, the
\* maximum separation is pi whatever the corner outputs are, the bounding cap
\* gets cosHalfAngle = -1, and that refresh writes no side caps; a cap test
\* against the frame is then never clipped by the bounding cap.
C10_FailedUnprojection ==
    [][ /\ \A f \in Frames :
              (last'.op = "painter_update_clip_info" /\ ~meas'[f].r) =>
                  /\ meas'[f].max_sep = M_PI
                  /\ painter'.clip_info[f].bounding_cap[4] = -One
                  /\ painter'.clip_info[f].nb_viewport_caps =
                         painter.clip_info[f].nb_viewport_caps
                  /\ painter'.clip_info[f].viewport_caps =
                         painter.clip_info[f].viewport_caps
        /\ (/\ last'.op = "painter_is_cap_clipped"
            /\ meas'[last'.frame].fresh
            /\ ~meas'[last'.frame].r) =>
               cap_intersects_cap(painter'.clip_info[last'.frame].bounding_cap,
                                  last'.cap)
      ]_vars

\* A point cap opposite to the centre of the view, tested after a refresh
\* whose unprojections failed, and found visible.
C10_Witness ==
    /\ last.op = "painter_is_cap_clipped"
    /\ meas[last.frame].fresh
    /\ ~meas[last.frame].r
    /\ LastClip.bounding_cap[4] = -One
    /\ last.cap = MkCap(vec3_mul(-1, Center(LastClip.bounding_cap)), One)
    /\ ~last.ret

\* Whether the point q violates clip plane k of: x <= w, -x <= w, y <= w,
\* -y <= w, z <= w, -z <= w.
Violates(k, q) ==
    CASE k = 1 -> q[1] > q[4]
      [] k = 2 -> -q[1] > q[4]
      [] k = 3 -> q[2] > q[4]
      [] k = 4 -> -q[2] > q[4]
      [] k = 5 -> q[3] > q[4]
      [] k = 6 -> -q[3] > q[4]

\* C8: is_clipped(n, pos) returns true if and only if every one of the n
\* points violates one and the same of the 6 clip planes; so it is false when
\* some point satisfies all 6 planes, as (0,0,0,1) does.
C8_FullyClippedIff ==
    last.op = "is_clipped" =>
        /\ last.ret = (\E k \in 1..6 : \A i \in 1..last.n : Violates(k, last.pos[i]))
        /\ (\E i \in 1..last.n : \A k \in 1..6 : ~Violates(k, last.pos[i])) => ~last.ret
        /\ (\E i \in 1..last.n : last.pos[i] = << 0, 0, 0, 1 >>) => ~last.ret

\* Two different points that have only the z <= w plane in common among the
\* planes they violate: fully clipped.
C8_Witness ==
    /\ last.op = "is_clipped"
    /\ last.n = 2
    /\ last.pos[1] # last.pos[2]
    /\ \A k \in 1..4 : \E i \in 1..2 : ~Violates(k, last.pos[i])
    /\ last.ret

\* The bounding cap of the tile of the latest tile test, as line 454 hands it
\* to the cap test.
LastTileCap == TransformedCap(painter, uv_map_get_bounding_cap(last.map))

\* Cap a lies fully inside cap b: the separation of the centres plus the half
\* angle of a is below the half angle of b (angles rounded to whole degrees,
\* against a).
CapInsideCap(a, b) == eraSepp(Center(a), Center(b)) + ACos(a[4]) < ACos(b[4])

\* The tile cap lies inside the viewport bounding cap and the 4 side caps.
InsideViewport ==
    /\ LastClip.nb_viewport_caps = 4
    /\ CapInsideCap(LastTileCap, LastClip.bounding_cap)
    /\ \A i \in 1..4 : CapInsideCap(LastTileCap, LastClip.viewport_caps[i])

BelowHorizon ==
    /\ HasFlag(painter.flags, PAINTER_HIDE_BELOW_HORIZON)
    /\ ~cap_intersects_cap(LastClip.sky_cap, LastTileCap)

\* C5 as stated: with PAINTER_HIDE_BELOW_HORIZON set, a tile whose bounding
\* cap is disjoint from the sky cap of the frame is reported clipped, for
\* every value of outside and every order.
C5_HiddenBelowHorizon_AnyOutside ==
    (last.op = "painter_is_quad_clipped" /\ BelowHorizon) => last.ret

\* C5, amended: with PAINTER_HIDE_BELOW_HORIZON set and outside = true, a
\* tile whose (transformed) bounding cap is disjoint from the sky cap of the
\* frame is reported clipped, for every order, even when the cap lies inside
\* the viewport bounding cap and the side caps.
C5_HiddenBelowHorizon ==
    (last.op = "painter_is_quad_clipped" /\ last.outside /\ BelowHorizon) =>
        (last.ret /\ last.at = 456)

\* A tile below the horizon and inside the viewport caps, culled.
C5_Witness ==
    /\ last.op = "painter_is_quad_clipped"
    /\ last.outside
    /\ BelowHorizon
    /\ InsideViewport
    /\ last.ret

\* C6 as stated: for every order and both values of outside, a tile whose
\* bounding cap does not intersect the viewport bounding cap is reported
\* clipped, and a tile whose bounding cap lies inside the viewport bounding
\* cap and all side caps is reported not clipped.
C6_CapDecides_AnyOutside ==
    last.op = "painter_is_quad_clipped" =>
        /\ ~cap_intersects_cap(LastClip.bounding_cap, LastTileCap) => last.ret
        /\ InsideViewport => ~last.ret

\* C6, amended: with outside = true and for every order, a tile whose
\* (transformed) bounding cap does not intersect the viewport bounding cap is
\* reported clipped; a tile whose cap lies inside the viewport bounding cap
\* and all side caps, and is not hidden below the horizon, is reported not
\* clipped when its order is below 2, and at order 2 and above is reported
\* clipped exactly when the frustum test on its 4 projected corners says so.
C6_CapDecides ==
    (last.op = "painter_is_quad_clipped" /\ last.outside) =>
        /\ ~cap_intersects_cap(LastClip.bounding_cap, LastTileCap) => last.ret
        /\ (InsideViewport /\ ~BelowHorizon) =>
               last.ret = ( /\ last.map.order >= 2
                            /\ is_clipped(4, ClipCorners(painter, last.frame, last.map)) )

\* An order 2 sky tile inside the viewport caps, found visible.
C6_Witness ==
    /\ last.op = "painter_is_quad_clipped"
    /\ last.outside
    /\ last.map.order = 2
    /\ InsideViewport
    /\ ~BelowHorizon
    /\ ~last.ret

\* Whether child i of the tile of the latest tile test is clipped.
ChildClipped(i) ==
    painter_is_quad_clipped(painter, last.frame, uv_map_subdivide(last.map)[i],
                            last.outside).ret

\* C7 as stated: for outside = true, order < 2 and a bounding cap that passes
\* the cap test, the tile is subdivided into its 4 children and is clipped
\* if and only if all 4 children are clipped.
C7_LowOrderSubdivides_Outside ==
    ( /\ last.op = "painter_is_quad_clipped"
      /\ last.outside
      /\ last.map.order < 2
      /\ ~painter_is_cap_clipped(painter, last.frame, LastTileCap) ) =>
        /\ last.at \in { 470, 472 }
        /\ last.ret = (\A i \in 1..4 : ChildClipped(i))

\* C7, amended: for outside = true, order < 2 and a bounding cap that passes
\* the cap test, the answer is "not clipped" from the cap test alone (line
\* 458), without subdivision; for outside = false and order < 2 the tile is
\* subdivided into its 4 children and is clipped if and only if all 4
\* children are clipped.
C7_LowOrderSubdivides ==
    last.op = "painter_is_quad_clipped" =>
        /\ ( /\ last.outside
             /\ last.map.order < 2
             /\ ~painter_is_cap_clipped(painter, last.frame, LastTileCap) ) =>
               (~last.ret /\ last.at = 458)
        /\ (~last.outside /\ last.map.order < 2) =>
               /\ last.at \in { 470, 472 }
               /\ last.ret = (\A i \in 1..4 : ChildClipped(i))

\* A low order sky tile that passed the cap test and was answered "not
\* clipped" although each of its 4 children is clipped.
C7_Witness ==
    /\ last.op = "painter_is_quad_clipped"
    /\ last.outside
    /\ last.map.order < 2
    /\ ~painter_is_cap_clipped(painter, last.frame, LastTileCap)
    /\ ~last.ret
    /\ \A i \in 1..4 : ChildClipped(i)

\* A low order tile of a body, subdivided, all 4 children clipped.
C7_WitnessBody ==
    /\ last.op = "painter_is_quad_clipped"
    /\ ~last.outside
    /\ last.map.order < 2
    /\ last.ret
    /\ last.at = 472

RendFns == { "quad", "mesh", "line" }

PaintOps == { "paint_quad", "paint_mesh", "paint_lines", "paint_quad_contour" }

\* C3 as stated: in every execution of paint_quad, paint_mesh, paint_lines
\* and paint_quad_contour, each invocation of a renderer entry point (quad,
\* mesh, line) comes after a test of the shape that answered "not clipped"
\* (the discontinuity test of a line is counted as such a test).
C3_RendererOnlyAfterClipTest ==
    last.op \in PaintOps =>
        \A j \in 1..Len(calls) :
            calls[j].fn \in RendFns =>
                \E i \in 1..(j - 1) : calls[i].fn \notin RendFns /\ ~calls[i].ret

\* C3, amended: paint_mesh invokes the renderer's mesh entry point only
\* after painter_is_cap_clipped on the bounding cap of the mesh has returned
\* "not clipped"; paint_quad makes no clip test and invokes the quad entry
\* point exactly when the colour texture, if any, loads and the alpha of the
\* colour is not 0; paint_lines and paint_quad_contour make no clip test and
\* invoke the line entry point for every line that the discontinuity guard
\* does not drop.
C3_MeshOnlyAfterClipTest ==
    /\ last.op = "paint_mesh" =>
           \A j \in 1..Len(calls) :
               calls[j].fn = "mesh" =>
                   /\ j = 2
                   /\ calls[1] = [fn |-> "painter_is_cap_clipped",
                                  frame |-> last.frame,
                                  cap |-> last.bounding_cap, ret |-> FALSE]
                   /\ ~painter_is_cap_clipped(painter, last.frame, last.bounding_cap)
    /\ last.op = "paint_quad" =>
           /\ \A j \in 1..Len(calls) : calls[j].fn = "quad"
           /\ (Len(calls) = 1) =
                  ( /\ painter.tex = "NULL" \/ texture_load(painter.tex)
                    /\ painter.color[4] # 0 )
           /\ Len(calls) <= 1
    /\ last.op \in { "paint_lines", "paint_quad_contour" } =>
           \A j \in 1..Len(calls) :
               \/ calls[j].fn = "line"
               \/ /\ calls[j].fn = "intersect_discontinuity"
                  /\ ~calls[j].ret => (j < Len(calls) /\ calls[j + 1].fn = "line")

\* A mesh that passed the cap test and reached the renderer.
C3_Witness ==
    /\ last.op = "paint_mesh"
    /\ Len(calls) = 2
    /\ calls[1].fn = "painter_is_cap_clipped"
    /\ ~calls[1].ret
    /\ calls[2].fn = "mesh"
    /\ \E f \in Frames : meas[f].fresh

\* Segment k (1..) of the lines of the latest paint_lines call.
Segment(k) == << last.lines[2 * k - 1], last.lines[2 * k] >>

\* Whether the ends of segment k, mapped to the view frame, are reported as
\* seam-crossing by the predicate of the projection.
Crossing(k) ==
    intersect_discontinuity(
        ViewPos(painter, last.frame, last.map, Segment(k)[1]),
        ViewPos(painter, last.frame, last.map, Segment(k)[2]))

Dropped(k) ==
    /\ HasFlag(last.flags, PAINTER_SKIP_DISCONTINUOUS)
    /\ painter.proj.has_discontinuity
    /\ Crossing(k)

IsLineCall(e) == e.fn = "line"

\* The lines submitted to the renderer by the latest paint call, in order.
LinesDrawn == SelectSeq(calls, IsLineCall)

\* The segments k..n that are not dropped, in order.
RECURSIVE Kept(_, _)
Kept(k, n) ==
    IF k > n THEN << >>
    ELSE (IF Dropped(k) THEN << >> ELSE << Segment(k) >>) \o Kept(k + 1, n)

\* C4: in paint_lines, a segment whose ends, mapped to the view frame, are
\* reported as seam-crossing by the intersect_discontinuity predicate of the
\* projection produces no renderer line call when PAINTER_SKIP_DISCONTINUOUS
\* is set, and is tessellated and submitted to the renderer when the flag is
\* unset; every other segment of the same call is submitted, before and
\* after a dropped one.
C4_SeamCrossingSkipped ==
    last.op = "paint_lines" =>
        /\ Len(LinesDrawn) = Len(Kept(1, Len(last.lines) \div 2))
        /\ \A i \in 1..Len(LinesDrawn) :
               LinesDrawn[i].line = Kept(1, Len(last.lines) \div 2)[i]
        /\ ~HasFlag(last.flags, PAINTER_SKIP_DISCONTINUOUS) =>
               Len(LinesDrawn) = Len(last.lines) \div 2

\* A call with the flag set that dropped its first segment and submitted a
\* later one.
C4_Witness ==
    /\ last.op = "paint_lines"
    /\ HasFlag(last.flags, PAINTER_SKIP_DISCONTINUOUS)
    /\ Len(last.lines) >= 4
    /\ Dropped(1)
    /\ ~Dropped(2)
    /\ Len(LinesDrawn) >= 1
    /\ LinesDrawn[1].line = Segment(2)

\* A call with the flag unset that submitted a seam-crossing segment.
C4_WitnessUnset ==
    /\ last.op = "paint_lines"
    /\ ~HasFlag(last.flags, PAINTER_SKIP_DISCONTINUOUS)
    /\ painter.proj.has_discontinuity
    /\ Len(last.lines) >= 2
    /\ Crossing(1)
    /\ LinesDrawn[1].line = Segment(1)

\* How far the re-projected position of the latest painter_project is from
\* the window position that was unprojected, in pixels (the larger of the two
\* coordinate differences).
RoundTripError ==
    max(Abs(last.win_pos[1] - last.from[1]), Abs(last.win_pos[2] - last.from[2]))

\* The tolerance of the round trip: directions are kept to 1 / One, which is
\* worth half a hundredth of the width of the window (4 pixels of 800).
Tolerance == WinW(painter) \div (2 * One)

\* The window-to-NDC step is x' = x/W*2-1, y' = 1-y/H*2: the top left corner
\* goes to (-1, 1), the centre to (0, 0), the bottom right corner to (1, -1).
NdcStep ==
    /\ WinToNdc(painter, << 0, 0 >>) = << -One, One >>
    /\ WinToNdc(painter, << WinW(painter) \div 2, WinH(painter) \div 2 >>) = << 0, 0 >>
    /\ WinToNdc(painter, << WinW(painter), WinH(painter) >>) = << One, -One >>

\* C11 as stated: for a window position inside the viewport that
\* painter_unproject could unproject, an identity transform and the frame
\* VIEW, painter_project of the unprojected position succeeds and returns the
\* window position, within the tolerance.
C11_RoundTrip_AnyClipFirst ==
    (last.op = "painter_project" /\ last.frame = FRAME_VIEW) =>
        (last.ret /\ RoundTripError <= Tolerance)

\* C11, amended: under the same conditions, painter_project succeeds exactly
\* when clip_first is false or painter_is_point_clipped_fast does not clip
\* the position against the clip_info of the frame, and when it succeeds it
\* returns the window position that was unprojected, within the tolerance; the
\* window-to-NDC step of painter_unproject is x' = x/W*2-1, y' = 1-y/H*2.
C11_RoundTrip ==
    /\ NdcStep
    /\ last.op = "painter_project" =>
           /\ last.ret = ( \/ ~last.clip_first
                           \/ ~painter_is_point_clipped_fast(
                                   painter, last.frame, last.pos, last.at_inf) )
           /\ last.ret => RoundTripError <= Tolerance

\* The centre (400, 300) of the 800 x 600 window, unprojected by the
\* orthographic projection to the frame VIEW and projected back, with the
\* clip test.
C11_Witness ==
    /\ last.op = "painter_project"
    /\ painter.proj.type = "orthographic"
    /\ painter.proj.window_size = << 800, 600 >>
    /\ last.frame = FRAME_VIEW
    /\ last.clip_first
    /\ last.from = << 400, 300 >>
    /\ last.ret
    /\ last.win_pos = << 400, 300 >>

\* A position away from the centre that made the round trip.
C11_WitnessOffCentre ==
    /\ last.op = "painter_project"
    /\ last.from = << 100, 500 >>
    /\ last.ret
    /\ last.win_pos = << 100, 500 >>

\* The dot product of the transformed normal at corner i of the tile of the
\* latest tile test and the direction of the middle of the body.
NormalDot(i) ==
    vec3_dot(Normal(painter, last.frame, last.map, i), Direction(painter, last.frame))

FrustumRejected == is_clipped(4, ClipCorners(painter, last.frame, last.map))

\* C12: a tile of a body (outside = false) of order > 1 that the frustum
\* test does not reject is reported not clipped when one of its 4 corners has
\* a negative dot product of its transformed normal and the direction of the
\* middle of the body, and clipped exactly when the 4 dot products are
\* non-negative; a tile with outside = true of order >= 2 that passes the cap
\* test and the frustum test gets no back-face test and is not clipped.
C12_BackFace ==
    last.op = "painter_is_quad_clipped" =>
        /\ (~last.outside /\ last.map.order > 1 /\ ~FrustumRejected) =>
               /\ last.ret = (\A i \in 1..4 : NormalDot(i) >= 0)
               /\ (\E i \in 1..4 : NormalDot(i) < 0) => (~last.ret /\ last.at = 507)
               /\ last.ret => last.at = 509
        /\ ( /\ last.outside
             /\ last.map.order >= 2
             /\ ~painter_is_cap_clipped(painter, last.frame, LastTileCap)
             /\ ~FrustumRejected ) =>
               (~last.ret /\ last.at = 512)

\* A tile on the far side of a body in front of the viewer: inside the
\* frustum, culled by the back-face test.
C12_Witness ==
    /\ last.op = "painter_is_quad_clipped"
    /\ ~last.outside
    /\ last.map.order > 1
    /\ ~FrustumRejected
    /\ \A i \in 1..4 : NormalDot(i) > 0
    /\ last.ret

\* A tile on the limb of the body, some corners facing the viewer and some
\* not: drawn.
C12_WitnessFront ==
    /\ last.op = "painter_is_quad_clipped"
    /\ ~last.outside
    /\ last.map.order > 1
    /\ ~FrustumRejected
    /\ \E i \in 1..4 : NormalDot(i) < 0
    /\ \E i \in 1..4 : NormalDot(i) >= 0
    /\ ~last.ret

\* A sky tile of order 2 that passed both tests although its normals do not
\* face the direction of the transform.
C12_WitnessSky ==
    /\ last.op = "painter_is_quad_clipped"
    /\ last.outside
    /\ last.map.order = 2
    /\ \A i \in 1..4 : NormalDot(i) >= 0
    /\ last.at = 512

\* C13: a call of painter_is_quad_clipped recurses only for an outside = false
\* tile of order < 2, descends at most 2 - order levels, and visits at most
\* 4 descendants from a tile of order 1 and 4 + 16 from a tile of order 0.
C13_BoundedDescent ==
    last.op = "painter_is_quad_clipped" =>
        /\ last.nb > 0 => ~last.outside /\ last.map.order < 2
        /\ last.depth <= max(0, 2 - last.map.order)
        /\ last.map.order >= 2 => last.nb = 0 /\ last.depth = 0
        /\ last.map.order = 1 => last.nb <= 4
        /\ last.map.order = 0 => last.nb <= 4 + 16

\* A whole face behind the viewer: every one of its 4 + 16 descendants is tried.
C13_Witness ==
    /\ last.op = "painter_is_quad_clipped"
    /\ ~last.outside
    /\ last.map.order = 0
    /\ last.nb = 4 + 16
    /\ last.depth = 2
    /\ last.ret

\* The descent cut short: the first child of an order-0 tile that is not
\* clipped ends it.
C13_WitnessEarly ==
    /\ last.op = "painter_is_quad_clipped"
    /\ ~last.outside
    /\ last.map.order = 0
    /\ last.nb < 4 + 16
    /\ last.depth = 2
    /\ ~last.ret

\* C14: paint_mesh and paint_2d_ellipse leave the caller's painter as it was,
\* clip_info and draw attributes included, in every step of every sequence of
\* calls.
C14_CallerUnchanged ==
    [][last'.op \in { "paint_mesh", "paint_2d_ellipse" } => painter' = painter]_vars

\* An ellipse whose local painter was given a number of dashes that the
\* caller's painter does not have, after its clip_info was computed.
C14_Witness ==
    /\ last.op = "paint_2d_ellipse"
    /\ last.dashes # 0
    /\ calls[1].painter.lines_stripes # painter.lines_stripes
    /\ calls[1].painter.lines_stripes > 0
    /\ painter = last.before
    /\ \E f \in Frames : meas[f].fresh

\* A plain ellipse drawn from a painter that has stripes set.
C14_WitnessPlain ==
    /\ last.op = "paint_2d_ellipse"
    /\ last.dashes = 0
    /\ painter.lines_stripes > 0
    /\ calls[1].painter.lines_stripes = 0

\* A mesh handed to the renderer.
C14_WitnessMesh ==
    /\ last.op = "paint_mesh"
    /\ Len(calls) = 2
    /\ painter.lines_stripes > 0

\* Whether the window position pt lies in the rectangle [0, W] x [0, H].
InWindow(pt) ==
    /\ 0 <= pt[1] /\ pt[1] <= WinW(painter)
    /\ 0 <= pt[2] /\ pt[2] <= WinH(painter)

\* C15: painter_is_2d_point_clipped returns true exactly when the point lies
\* outside the window rectangle [0, W] x [0, H], and so returns what
\* painter_is_2d_circle_clipped returns for the same point and radius 0.
C15_PointClippedIffOutside ==
    last.op = "painter_is_2d_point_clipped" =>
        /\ last.ret = ~InWindow(last.p)
        /\ last.ret = painter_is_2d_circle_clipped(painter, last.p, 0)

\* What the function returns: true exactly when the point lies in the window
\* rectangle, the opposite of painter_is_2d_circle_clipped with radius 0.
C15_PointClippedIffInside ==
    last.op = "painter_is_2d_point_clipped" =>
        /\ last.ret = InWindow(last.p)
        /\ last.ret = ~painter_is_2d_circle_clipped(painter, last.p, 0)

\* The middle of the window, reported clipped.
C15_WitnessInside ==
    /\ last.op = "painter_is_2d_point_clipped"
    /\ last.p = << WinW(painter) \div 2, WinH(painter) \div 2 >>
    /\ last.ret

\* painter_is_2d_circle_clipped answers true exactly when no point of the
\* disc lies in the window rectangle; for radius 0, when the point is outside.
C15_CircleClippedIffOutside ==
    last.op = "painter_is_2d_circle_clipped" =>
        /\ last.radius = 0 => last.ret = ~InWindow(last.p)
        /\ InWindow(last.p) => ~last.ret
        /\ last.ret =
             ~(LET X == IF last.p[1] < 0 THEN 0
                       ELSE IF last.p[1] > WinW(painter) THEN WinW(painter)
                       ELSE last.p[1]
                   Y == IF last.p[2] < 0 THEN 0
                       ELSE IF last.p[2] > WinH(painter) THEN WinH(painter)
                       ELSE last.p[2]
               IN (X - last.p[1]) * (X - last.p[1])
                    + (Y - last.p[2]) * (Y - last.p[2])
                      <= last.radius * last.radius)

====
